---------------------------- MODULE Spec2Model ----------------------------
(***************************************************************************)
(* Model of anonymizer_api/anonymizer.py (Anonymizer v3): the checksum     *)
(* validators, the patterns and maskers of the registry, the span          *)
(* collection, the sort-and-sweep reconstruction (_apply) and the two      *)
(* public entry points anonymize_all and anonymize_all_many.               *)
(*                                                                         *)
(* A Python str is a sequence of one-character strings.  The character     *)
(* "sup2" stands for U+00B2 (SUPERSCRIPT TWO): str.isdigit() is True for   *)
(* it and int() rejects it.                                                *)
(***************************************************************************)
EXTENDS Integers, Sequences, FiniteSets, TLC

VARIABLES
    input,      \* SpecRules: the string handed to a validator / a rule
    op,         \* SpecRules: the operation applied last
    verdict,    \* SpecRules: results of the three validators on input
    spans,      \* SpecRules: the _Repl list a registry rule produced
    altered,    \* SpecRules: input with one digit replaced
    doc,        \* SpecApply: the document being anonymized
    repls,      \* SpecApply: the candidate list inside _apply
    idx,        \* SpecApply: position of the for loop in repls
    cursor,     \* SpecApply: _apply's cursor
    out,        \* SpecApply: _apply's out, joined
    acc,        \* SpecApply: the candidates the loop accepted (history)
    pc,         \* SpecApply: control point of anonymize_all
    call,       \* Spec: the public call in progress
    ret         \* Spec: what the call returned or raised

vars == <<input, op, verdict, spans, altered,
          doc, repls, idx, cursor, out, acc, pc, call, ret>>

ruleVars == <<input, op, verdict, spans, altered>>
applyVars == <<doc, repls, idx, cursor, out, acc, pc>>
apiVars == <<call, ret>>

-----------------------------------------------------------------------------
(* Characters and Python string primitives                                 *)

Digits == <<"0", "1", "2", "3", "4", "5", "6", "7", "8", "9">>

UpperLetters == <<"A", "B", "C", "D", "E", "F", "G", "H", "I", "J", "K", "L", "M",
                  "N", "O", "P", "Q", "R", "S", "T", "U", "V", "W", "X", "Y", "Z">>

LowerLetters == <<"a", "b", "c", "d", "e", "f", "g", "h", "i", "j", "k", "l", "m",
                  "n", "o", "p", "q", "r", "s", "t", "u", "v", "w", "x", "y", "z">>

Range(s) == {s[i] : i \in DOMAIN s}

DigitSet == Range(Digits)

UpperSet == Range(UpperLetters)

LowerSet == Range(LowerLetters)

IndexOf(s, c) == CHOOSE i \in DOMAIN s : s[i] = c

Max(a, b) == IF a >= b THEN a ELSE b

Min(a, b) == IF a <= b THEN a ELSE b

\* [0-9] and \d within the modelled alphabet; exactly the characters int() reads
IsDigitChar(c) == c \in DigitSet

DigitVal(c) == IndexOf(Digits, c) - 1

\* str.isdigit(): also True for superscript digits, which int() rejects
IsDigitLike(c) == IsDigitChar(c) \/ c = "sup2"

\* [0-9A-Za-z]
IsAlnum(c) == c \in DigitSet \/ c \in UpperSet \/ c \in LowerSet

\* \s within the modelled alphabet
IsSpace(c) == c = " "

\* [\s-]
IsSeparator(c) == IsSpace(c) \/ c = "-"

NotSeparator(c) == ~IsSeparator(c)

UpperChar(c) == IF c \in LowerSet THEN UpperLetters[IndexOf(LowerLetters, c)] ELSE c

\* str.upper()
Upper(s) == [i \in DOMAIN s |-> UpperChar(s[i])]

\* ch * n (empty for n <= 0)
Repeat(ch, n) == [i \in 1..Max(n, 0) |-> ch]

\* s[a:b] with Python's clamping, 0-based half-open, 0 <= a
Slice(s, a, b) == SubSeq(s, Min(a, Len(s)) + 1, Min(b, Len(s)))

\* s[a + 1:]: one character too far
SliceFromNext(s, a) == SubSeq(s, Min(a + 1, Len(s)) + 1, Len(s))

\* s[a:]
SliceFrom(s, a) == SubSeq(s, Min(a, Len(s)) + 1, Len(s))

\* s[-n:]
LastN(s, n) == SubSeq(s, Max(Len(s) - n, 0) + 1, Len(s))

\* s[:-n]
DropLastN(s, n) == SubSeq(s, 1, Max(Len(s) - n, 0))

Reverse(s) == [i \in DOMAIN s |-> s[Len(s) + 1 - i]]

RECURSIVE Flatten(_)
Flatten(ss) == IF ss = <<>> THEN <<>> ELSE Head(ss) \o Flatten(Tail(ss))

\* _strip: regex.sub(r"[\s-]", "", acc)
Strip(s) == SelectSeq(s, NotSeparator)

-----------------------------------------------------------------------------
(* int(): the literal grammar of Python's int(str) in base 10 (optional    *)
(* sign, digits, single underscores between digits).  Python integers are  *)
(* unbounded; the value is carried modulo m, digit by digit, which is      *)
(* int(s) % m.                                                             *)

RECURSIVE ModOfDigits(_, _, _)
ModOfDigits(s, m, a) ==
    IF s = <<>> THEN a
    ELSE IF Head(s) = "_" THEN ModOfDigits(Tail(s), m, a)
    ELSE ModOfDigits(Tail(s), m, (a * 10 + DigitVal(Head(s))) % m)

IsIntBody(b) ==
    /\ Len(b) > 0
    /\ \A i \in DOMAIN b : IsDigitChar(b[i]) \/ b[i] = "_"
    /\ IsDigitChar(b[1])
    /\ IsDigitChar(b[Len(b)])
    /\ \A i \in 1..(Len(b) - 1) : ~(b[i] = "_" /\ b[i + 1] = "_")

\* [ok |-> FALSE]: int(s) raises ValueError; otherwise val = int(s) % m
PyIntMod(s, m) ==
    LET signed == Len(s) > 0 /\ s[1] \in {"+", "-"}
        body == IF signed THEN Tail(s) ELSE s
    IN IF ~IsIntBody(body) THEN [ok |-> FALSE, val |-> 0]
       ELSE LET v == ModOfDigits(body, m, 0)
            IN [ok |-> TRUE, val |-> IF signed /\ s[1] = "-" THEN (m - v) % m ELSE v]

-----------------------------------------------------------------------------
(* Validators.  Each returns "True", "False" or "Raise" (an exception      *)
(* leaves the function).                                                   *)

IbanLen == 27

IbanModulus == 97

\* _alpha_to_num.get(ch, ch): A -> "10", ..., Z -> "35"
AlphaToNum(ch) ==
    IF ch \in UpperSet
    THEN LET v == IndexOf(UpperLetters, ch) + 9
         IN <<Digits[(v \div 10) + 1], Digits[(v % 10) + 1]>>
    ELSE <<ch>>

iban_to_numeric(iban) == Flatten([i \in DOMAIN iban |-> AlphaToNum(iban[i])])

\* raw[4:] + raw[:2]: the rearrangement with the two check digits left out
RearrangeDropCheck(raw) == SubSeq(raw, 5, Len(raw)) \o SubSeq(raw, 1, 2)

\* rearr = raw[4:] + raw[:4]
Rearrange(raw) == SubSeq(raw, 5, Len(raw)) \o SubSeq(raw, 1, 4)

is_valid_iban(iban) ==
    LET raw == Upper(Strip(iban))
    IN IF ~(Len(raw) >= 2 /\ raw[1] = "F" /\ raw[2] = "R") \/ Len(raw) # IbanLen
       THEN "False"
       ELSE LET num == PyIntMod(iban_to_numeric(Rearrange(raw)), IbanModulus)
            IN IF ~num.ok THEN "Raise"
               ELSE IF num.val = 1 THEN "True" ELSE "False"

\* one step of the Luhn loop on the i-th digit (0-based) of the reversed list
LuhnTerm(i, d) ==
    IF i % 2 = 1
    THEN (IF 2 * d > 9 THEN 2 * d - 9 ELSE 2 * d)
    ELSE d

RECURSIVE LuhnSum(_, _)
LuhnSum(digits, i) ==
    IF i > Len(digits) THEN 0
    ELSE LuhnTerm(i - 1, DigitVal(digits[i])) + LuhnSum(digits, i + 1)

is_valid_luhn(number) ==
    LET ds == SelectSeq(number, IsDigitLike)
    IN IF \E i \in DOMAIN ds : ~IsDigitChar(ds[i]) THEN "Raise"
       ELSE IF LuhnSum(Reverse(ds), 1) % 10 = 0 THEN "True" ELSE "False"

NirLen == 15

is_valid_nir(nir) ==
    LET num == Strip(nir)
    IN IF Len(num) # NirLen \/ ~(\A i \in DOMAIN num : IsDigitLike(num[i]))
       THEN "False"
       ELSE LET key == PyIntMod(LastN(num, 2), 100)
                n == PyIntMod(DropLastN(num, 2), 97)
            IN IF ~key.ok \/ ~n.ok THEN "Raise"
               ELSE IF 97 - n.val = key.val THEN "True" ELSE "False"

-----------------------------------------------------------------------------
(* The rules of _PATTERNS: pattern, validator, masker.  A match is         *)
(* [start, end), 0-based, as m.start() and m.end().                        *)

IbanRule == 2

CardRule == 9

IbanGroupCount == 5

IbanGroupLen == 4

IbanTailLen == 1

CardMinUnits == 13

CardMaxUnits == 16

AlnumRun(text, q, n) ==
    /\ q + n - 1 <= Len(text)
    /\ \A i \in q..(q + n - 1) : IsAlnum(text[i])

\* (?:[\s]?[0-9A-Za-z]{4}){5} from index q on: the index after the last
\* group, 0 when the groups do not match.  A whitespace is not [0-9A-Za-z],
\* so taking the optional whitespace whenever it is there loses no match.
RECURSIVE IbanGroups(_, _, _)
IbanGroups(text, q, k) ==
    IF k = 0 THEN q
    ELSE LET q1 == IF q <= Len(text) /\ IsSpace(text[q]) THEN q + 1 ELSE q
         IN IF AlnumRun(text, q1, IbanGroupLen)
            THEN IbanGroups(text, q1 + IbanGroupLen, k - 1)
            ELSE 0

\* _iban_pat matched at index p (1-based): m.end(), 0 when there is no match
IbanMatchEnd(text, p) ==
    IF ~(p + 3 <= Len(text) /\ text[p] = "F" /\ text[p + 1] = "R"
         /\ IsAlnum(text[p + 2]) /\ IsAlnum(text[p + 3]))
    THEN 0
    ELSE LET q == IbanGroups(text, p + 4, IbanGroupCount)
         IN IF q > 0 /\ AlnumRun(text, q, IbanTailLen) THEN q + IbanTailLen - 1 ELSE 0

\* (?:\d[\s-]?){13,16} from index q on, n units matched so far: greedy, and a
\* unit can only start at a digit, so no shorter choice yields a longer match
RECURSIVE CardUnits(_, _, _)
CardUnits(text, q, n) ==
    IF n < CardMaxUnits /\ q <= Len(text) /\ IsDigitChar(text[q])
    THEN CardUnits(text,
                   IF q + 1 <= Len(text) /\ IsSeparator(text[q + 1]) THEN q + 2 ELSE q + 1,
                   n + 1)
    ELSE IF n >= CardMinUnits THEN q - 1 ELSE 0

\* _card_pat matched at index p (1-based): m.end(), 0 when there is no match
CardMatchEnd(text, p) == CardUnits(text, p, 0)

\* the other rules of _PATTERNS, by position in the tuple
AddrRule == 1

RibRule == 3

DateNumRule == 4

DateAlphaRule == 5

PassportRule == 6

PermisRule == 7

PlateRule == 8

EmailRule == 10

NirRule == 11

\* letters outside ASCII, one name per character: "e_acute" is U+00E9 and
\* "u_circ" is U+00FB
AccentSet == {"e_acute", "u_circ"}

IsLetter(c) == c \in UpperSet \/ c \in LowerSet

\* \w
IsWord(c) == IsAlnum(c) \/ c = "_" \/ c \in AccentSet

WordAt(text, i) == i >= 1 /\ i <= Len(text) /\ IsWord(text[i])

\* \b between text[i] and text[i + 1] (1-based; i = 0 and i = Len(text) are
\* the two ends of the string)
BoundaryAt(text, i) == WordAt(text, i) # WordAt(text, i + 1)

\* \d{n} from index q on
DigitRun(text, q, n) ==
    /\ q + n - 1 <= Len(text)
    /\ \A i \in q..(q + n - 1) : IsDigitChar(text[i])

LetterRun(text, q, n) ==
    /\ q + n - 1 <= Len(text)
    /\ \A i \in q..(q + n - 1) : IsLetter(text[i])

CharAt(text, q, c) == q <= Len(text) /\ text[q] = c

\* \s? from index q on: the index after it.  What follows is always a digit,
\* so taking the whitespace whenever it is there loses no match.
OptSpace(text, q) == IF q <= Len(text) /\ IsSpace(text[q]) THEN q + 1 ELSE q

\* _rib_pat: \b\d{5}\s?\d{5}\s?\d{11}\s?\d{2}\b
RibMatchEnd(text, p) ==
    LET q1 == OptSpace(text, p + 5)
        q2 == OptSpace(text, q1 + 5)
        q3 == OptSpace(text, q2 + 11)
    IN IF /\ BoundaryAt(text, p - 1)
          /\ DigitRun(text, p, 5)
          /\ DigitRun(text, q1, 5)
          /\ DigitRun(text, q2, 11)
          /\ DigitRun(text, q3, 2)
          /\ BoundaryAt(text, q3 + 1)
       THEN q3 + 1
       ELSE 0

\* \d{1,2} followed by the character c, from index q on: the number of digits
\* taken, 0 when it does not match
ShortNumber(text, q, c) ==
    IF DigitRun(text, q, 2) /\ CharAt(text, q + 2, c) THEN 2
    ELSE IF DigitRun(text, q, 1) /\ CharAt(text, q + 1, c) THEN 1
    ELSE 0

\* _date_num_pat: \b\d{1,2}/\d{1,2}/\d{4}\b
DateNumMatchEnd(text, p) ==
    LET d == ShortNumber(text, p, "/")
        q == p + d + 1
        m == ShortNumber(text, q, "/")
        y == q + m + 1
    IN IF /\ BoundaryAt(text, p - 1)
          /\ d > 0
          /\ m > 0
          /\ DigitRun(text, y, 4)
          /\ BoundaryAt(text, y + 3)
       THEN y + 3
       ELSE 0

\* _months
Months ==
    <<<<"j", "a", "n", "v", "i", "e", "r">>,
      <<"f", "e_acute", "v", "r", "i", "e", "r">>,
      <<"m", "a", "r", "s">>,
      <<"a", "v", "r", "i", "l">>,
      <<"m", "a", "i">>,
      <<"j", "u", "i", "n">>,
      <<"j", "u", "i", "l", "l", "e", "t">>,
      <<"a", "o", "u_circ", "t">>,
      <<"s", "e", "p", "t", "e", "m", "b", "r", "e">>,
      <<"o", "c", "t", "o", "b", "r", "e">>,
      <<"n", "o", "v", "e", "m", "b", "r", "e">>,
      <<"d", "e_acute", "c", "e", "m", "b", "r", "e">>>>

\* the literal w at index q, regex.IGNORECASE
WordAtIgnoreCase(text, q, w) ==
    /\ q + Len(w) - 1 <= Len(text)
    /\ \A i \in DOMAIN w : UpperChar(text[q + i - 1]) = UpperChar(w[i])

\* _date_alpha_pat: \b\d{1,2} (?:janvier|...|décembre) \d{4}\b, IGNORECASE.
\* No month followed by a space is the beginning of another one followed by
\* a space, so at most one alternative goes through.
DateAlphaMatchEnd(text, p) ==
    LET d == ShortNumber(text, p, " ")
        q == p + d + 1
        ok(k) == WordAtIgnoreCase(text, q, Months[k] \o <<" ">>)
        ks == {k \in DOMAIN Months : ok(k)}
    IN IF ~BoundaryAt(text, p - 1) \/ d = 0 \/ ks = {} THEN 0
       ELSE LET k == CHOOSE j \in ks : TRUE
                y == q + Len(Months[k]) + 1
            IN IF DigitRun(text, y, 4) /\ BoundaryAt(text, y + 3) THEN y + 3 ELSE 0

\* _passport_pat: \b\d{2}[A-Z]{2}\d{5}\b, IGNORECASE
PassportMatchEnd(text, p) ==
    IF /\ BoundaryAt(text, p - 1)
       /\ DigitRun(text, p, 2)
       /\ LetterRun(text, p + 2, 2)
       /\ DigitRun(text, p + 4, 5)
       /\ BoundaryAt(text, p + 8)
    THEN p + 8
    ELSE 0

\* _permis_pat: \b\d{12}\b
PermisMatchEnd(text, p) ==
    IF BoundaryAt(text, p - 1) /\ DigitRun(text, p, 12) /\ BoundaryAt(text, p + 11)
    THEN p + 11
    ELSE 0

\* _plate_pat: \b[A-Z]{2}-\d{3}-[A-Z]{2}\b, IGNORECASE
PlateMatchEnd(text, p) ==
    IF /\ BoundaryAt(text, p - 1)
       /\ LetterRun(text, p, 2)
       /\ CharAt(text, p + 2, "-")
       /\ DigitRun(text, p + 3, 3)
       /\ CharAt(text, p + 6, "-")
       /\ LetterRun(text, p + 7, 2)
       /\ BoundaryAt(text, p + 8)
    THEN p + 8
    ELSE 0

\* _nir_pat: \b[12]\d{2}\d{2}\d{2}\d{3}\d{3}\d{2}\b
NirMatchEnd(text, p) ==
    IF /\ BoundaryAt(text, p - 1)
       /\ p <= Len(text) /\ text[p] \in {"1", "2"}
       /\ DigitRun(text, p + 1, 14)
       /\ BoundaryAt(text, p + 14)
    THEN p + 14
    ELSE 0

MaxOf(S) == CHOOSE x \in S : \A y \in S : y <= x

\* the length of the longest run of characters of a class from index q on;
\* inClass[i] tells whether the i-th character is in the class
RunLen(inClass, q) ==
    MaxOf({n \in 0..Max(Len(inClass) - q + 1, 0) : \A i \in q..(q + n - 1) : inClass[i]})

\* a greedy quantifier: rest[j] is the result of the rest of the pattern
\* after j repetitions; the result for the largest j for which the rest
\* matches, 0 when there is none
FirstDown(rest) ==
    LET S == {j \in DOMAIN rest : rest[j] > 0}
    IN IF S = {} THEN 0 ELSE rest[MaxOf(S)]

\* [A-Za-z0-9._%+-]
IsLocalChar(c) == IsAlnum(c) \/ c \in {".", "_", "%", "+", "-"}

\* [A-Za-z0-9.-]
IsDomainChar(c) == IsAlnum(c) \/ c \in {".", "-"}

\* \.[A-Za-z]{2,}\b from index q on
EmailTld(text, q) ==
    LET letters == [i \in DOMAIN text |-> IsLetter(text[i])]
    IN IF CharAt(text, q, ".")
       THEN FirstDown([k \in 2..RunLen(letters, q + 1) |->
                          IF BoundaryAt(text, q + k) THEN q + k ELSE 0])
       ELSE 0

\* _email_pat: \b[A-Za-z0-9._%+-]+@[A-Za-z0-9.-]+\.[A-Za-z]{2,}\b.  "@" is
\* not in the first class, so the local part is the whole run before it.
EmailMatchEnd(text, p) ==
    LET n == RunLen([i \in DOMAIN text |-> IsLocalChar(text[i])], p)
        q == p + n + 1
        m == RunLen([i \in DOMAIN text |-> IsDomainChar(text[i])], q)
    IN IF BoundaryAt(text, p - 1) /\ n >= 1 /\ CharAt(text, p + n, "@")
       THEN FirstDown([j \in 1..m |-> EmailTld(text, q + j)])
       ELSE 0

\* [^,\n]
IsStreetChar(c) == c # ","

\* [A-ZÉÈÀÂÊÎÔÛÇ], IGNORECASE
IsCityInitial(c) == IsLetter(c) \/ c \in AccentSet

\* [a-zà-ÿ\-\s], IGNORECASE
IsCityChar(c) == IsLetter(c) \/ c \in AccentSet \/ c = "-" \/ IsSpace(c)

SpaceRun(text, q) == RunLen([i \in DOMAIN text |-> IsSpace(text[i])], q)

\* [A-ZÉÈÀÂÊÎÔÛÇ][a-zà-ÿ\-\s]{2,50}\b from index q on
AddrCity(text, q) ==
    LET m == RunLen([i \in DOMAIN text |-> IsCityChar(text[i])], q + 1)
    IN IF q <= Len(text) /\ IsCityInitial(text[q])
       THEN FirstDown([j \in 2..Min(50, m) |-> IF BoundaryAt(text, q + j) THEN q + j ELSE 0])
       ELSE 0

\* \d{5}\s+ and the city from index q on
AddrZip(text, q) ==
    IF DigitRun(text, q, 5)
    THEN FirstDown([k \in 1..SpaceRun(text, q + 5) |-> AddrCity(text, q + 5 + k)])
    ELSE 0

\* \s+ and the postcode from index q on
AddrGap(text, q) == FirstDown([j \in 1..SpaceRun(text, q) |-> AddrZip(text, q + j)])

\* ,? and what follows it from index q on: with the comma first
AddrComma(text, q) ==
    LET with == IF CharAt(text, q, ",") THEN AddrGap(text, q + 1) ELSE 0
    IN IF with > 0 THEN with ELSE AddrGap(text, q)

\* [^,\n]{2,80} and what follows it from index q on
AddrStreet(text, q) ==
    LET m == RunLen([i \in DOMAIN text |-> IsStreetChar(text[i])], q)
    IN FirstDown([j \in 2..Min(80, m) |-> AddrComma(text, q + j)])

\* \d{n}\s+ and what follows it
AddrNumber(text, p, n) ==
    IF DigitRun(text, p, n)
    THEN FirstDown([j \in 1..SpaceRun(text, p + n) |-> AddrStreet(text, p + n + j)])
    ELSE 0

\* _addr_pat: \b\d{1,4}\s+[^,\n]{2,80},?\s+\d{5}\s+[A-ZÉÈÀÂÊÎÔÛÇ][a-zà-ÿ\-\s]{2,50}\b,
\* VERSION1 | IGNORECASE
AddrMatchEnd(text, p) ==
    IF BoundaryAt(text, p - 1)
    THEN FirstDown([n \in 1..4 |-> AddrNumber(text, p, n)])
    ELSE 0

\* the pattern of a rule of _PATTERNS matched at index p (1-based): m.end(),
\* 0 when there is no match
MatchEnd(rule, text, p) ==
    CASE rule = AddrRule -> AddrMatchEnd(text, p)
      [] rule = IbanRule -> IbanMatchEnd(text, p)
      [] rule = RibRule -> RibMatchEnd(text, p)
      [] rule = DateNumRule -> DateNumMatchEnd(text, p)
      [] rule = DateAlphaRule -> DateAlphaMatchEnd(text, p)
      [] rule = PassportRule -> PassportMatchEnd(text, p)
      [] rule = PermisRule -> PermisMatchEnd(text, p)
      [] rule = PlateRule -> PlateMatchEnd(text, p)
      [] rule = CardRule -> CardMatchEnd(text, p)
      [] rule = EmailRule -> EmailMatchEnd(text, p)
      [] rule = NirRule -> NirMatchEnd(text, p)

\* pat.finditer(text): leftmost matches, left to right, not overlapping
RECURSIVE FindIter(_, _, _)
FindIter(rule, text, p) ==
    IF p > Len(text) THEN <<>>
    ELSE LET e == MatchEnd(rule, text, p)
         IN IF e > 0
            THEN <<[start |-> p - 1, end |-> e]>> \o FindIter(rule, text, e + 1)
            ELSE FindIter(rule, text, p + 1)

\* m.group(0)
Group(text, m) == SubSeq(text, m.start + 1, m.end)

IbanMaskPrefix == <<"F", "R", "*", "*", "*", "*", "*", "*", "*", "*", "*", "*", "*", "*">>

mask_iban(x) == IbanMaskPrefix \o LastN(Strip(x), 4)

\* "*" * (len(digits) - 3) + digits[-3:]: one digit too few kept
mask_card_keep3(x) == LET digits == Strip(x) IN Repeat("*", Len(digits) - 3) \o LastN(digits, 3)

mask_card(x) == LET digits == Strip(x) IN Repeat("*", Len(digits) - 4) \o LastN(digits, 4)

\* "*" * (len(local) - 1) + local[-1] beyond two characters: the first
\* character starred as well
mask_email_hide_first(x) ==
    LET at == CHOOSE i \in DOMAIN x : x[i] = "@" /\ \A k \in 1..(i - 1) : x[k] # "@"
        local == SubSeq(x, 1, at - 1)
        masked_local == IF Len(local) <= 2 THEN Repeat("*", Len(local))
                        ELSE Repeat("*", Len(local) - 1) \o <<local[Len(local)]>>
    IN masked_local \o SubSeq(x, at, Len(x))

\* x holds an "@" wherever the code calls it: local, domain = x.split("@", 1)
mask_email(x) ==
    LET at == CHOOSE i \in DOMAIN x : x[i] = "@" /\ \A k \in 1..(i - 1) : x[k] # "@"
        local == SubSeq(x, 1, at - 1)
        masked_local == IF Len(local) <= 2 THEN Repeat("*", Len(local))
                        ELSE <<local[1]>> \o Repeat("*", Len(local) - 2) \o <<local[Len(local)]>>
    IN masked_local \o SubSeq(x, at, Len(x))

mask_rib(x) == Repeat("*", 12) \o LastN(x, 4)

\* "***" + x[-12:]: twelve digits left in clear
mask_nir_keep12(x) == Repeat("*", 3) \o LastN(x, 12)

mask_nir(x) == Repeat("*", 11) \o LastN(x, 4)

\* x[:2] + "*" * (len(x) - 4) + x[-2:]
mask_passport(x) == Slice(x, 0, 2) \o Repeat("*", Len(x) - 4) \o LastN(x, 2)

mask_license(x) == <<"P", "E", "R", "M", "I", "S", "*", "*", "*", "*", "*", "*", "*", "*">>

AddrLabel == <<"A", "D", "R", "E", "S", "S", "E">>

PlateLabel == <<"I", "M", "M", "A", "T", "R", "I", "C", "U", "L", "A", "T", "I", "O", "N">>

DateLabel == <<"D", "A", "T", "E">>

\* the digits the years of the model are written with
YearDigits == {"0", "1", "9"}

\* f"{year}" for the year of a datetime: 1 to 9999, no leading zero
YearStrings == {y \in UNION {[1..n -> YearDigits] : n \in 1..4} : y[1] # "0"}

\* _mask_date: what dateutil makes of x is not modelled; it raises, or it
\* returns a datetime of any year
mask_date(x) == {DateLabel} \cup {<<"X", "X", "/", "X", "X", "/">> \o y : y \in YearStrings}

\* the validator of a rule of _PATTERNS, True where the rule has none
Validator(rule, x) ==
    CASE rule = IbanRule -> is_valid_iban(x)
      [] rule = CardRule -> is_valid_luhn(x)
      [] rule = NirRule -> is_valid_nir(x)
      [] OTHER -> "True"

Masker(rule, x) == IF rule = IbanRule THEN mask_iban(x) ELSE mask_card(x)

\* the masker of a rule of _PATTERNS: the replacements it can return for x
Maskers(rule, x) ==
    CASE rule = AddrRule -> {AddrLabel}
      [] rule = IbanRule -> {mask_iban(x)}
      [] rule = RibRule -> {mask_rib(x)}
      [] rule = DateNumRule -> mask_date(x)
      [] rule = DateAlphaRule -> mask_date(x)
      [] rule = PassportRule -> {mask_passport(x)}
      [] rule = PermisRule -> {mask_license(x)}
      [] rule = PlateRule -> {PlateLabel}
      [] rule = CardRule -> {mask_card(x)}
      [] rule = EmailRule -> {mask_email(x)}
      [] rule = NirRule -> {mask_nir(x)}

\* the validator-accepted matches of one rule, in match order
AcceptedMatches(rule, text) ==
    LET ok(m) == Validator(rule, Group(text, m)) = "True"
    IN SelectSeq(FindIter(rule, text, 1), ok)

\* the inner loop of _gather_regex for one rule of _PATTERNS: the _Repl of
\* every match the validator accepts, in match order
RuleSpans(rule, text) ==
    LET ms == FindIter(rule, text, 1)
        ok(m) == Validator(rule, Group(text, m)) = "True"
        kept == SelectSeq(ms, ok)
    IN [i \in DOMAIN kept |->
          [start |-> kept[i].start, end |-> kept[i].end,
           repl |-> Masker(rule, Group(text, kept[i]))]]

\* whether a validator call inside the loop raises
RuleRaises(rule, text) ==
    LET ms == FindIter(rule, text, 1)
    IN \E i \in DOMAIN ms : Validator(rule, Group(text, ms[i])) = "Raise"

-----------------------------------------------------------------------------
(* Span collection and reconstruction.  A document carries its text and    *)
(* what the three detectors find in it: reg, the validator-accepted        *)
(* matches of the registry rules in the order _gather_regex meets them     *)
(* (rule by rule, each rule's matches left to right); phone and person,    *)
(* the outcome of the two providers (ok = FALSE: the provider raises).     *)
(* The patterns of the registry other than the IBAN and the card pattern   *)
(* are not evaluated on the text: a match is given by its rule and range,  *)
(* and its replacement is the rule's mask token.  A _Repl carries src, the *)
(* detector it comes from (a rule's index in _PATTERNS, PhoneSrc or        *)
(* PersonSrc): history only, no code reads it.                             *)

PatternCount == 11

PhoneSrc == 12

PersonSrc == 13

\* masker(m.group(0)) of each rule of _PATTERNS, as one token
RuleMask == <<"ADRESSE", "FR************dddd", "************dddd", "XX/XX/yyyy",
              "XX/XX/yyyy", "dd*****dd", "PERMIS********", "IMMATRICULATION",
              "************dddd", "l***l@domain", "***********dddd">>

Repl(start, end, repl, src) == [start |-> start, end |-> end, repl |-> repl, src |-> src]

gather_regex(d) ==
    [i \in DOMAIN d.reg |->
        Repl(d.reg[i].start, d.reg[i].end, <<RuleMask[d.reg[i].rule]>>, d.reg[i].rule)]

mask_phone(x) == LET digits == Strip(x) IN Repeat("X", Len(digits) - 2) \o LastN(digits, 2)

gather_phones(d) ==
    [i \in DOMAIN d.phone.spans |->
        Repl(d.phone.spans[i].start, d.phone.spans[i].end,
             mask_phone(Slice(d.text, d.phone.spans[i].start, d.phone.spans[i].end)),
             PhoneSrc)]

\* ent.text[0] + "*" * (len(ent.text) - 1) if len(ent.text) > 1 else "*"
MaskPerson(t) == IF Len(t) > 1 THEN <<t[1]>> \o Repeat("*", Len(t) - 1) ELSE <<"*">>

gather_person(d) ==
    [i \in DOMAIN d.person.spans |->
        Repl(d.person.spans[i].start, d.person.spans[i].end,
             MaskPerson(Slice(d.text, d.person.spans[i].start, d.person.spans[i].end)),
             PersonSrc)]

\* an unstable sort: equal starts end up in reverse order
RECURSIVE InsertByStartUnstable(_, _)
InsertByStartUnstable(sorted, r) ==
    IF sorted = <<>> THEN <<r>>
    ELSE IF sorted[Len(sorted)].start < r.start THEN Append(sorted, r)
    ELSE Append(InsertByStartUnstable(SubSeq(sorted, 1, Len(sorted) - 1), r),
                sorted[Len(sorted)])

\* list.sort(key=lambda r: r.start): stable
RECURSIVE InsertByStart(_, _)
InsertByStart(sorted, r) ==
    IF sorted = <<>> THEN <<r>>
    ELSE IF sorted[Len(sorted)].start <= r.start THEN Append(sorted, r)
    ELSE Append(InsertByStart(SubSeq(sorted, 1, Len(sorted) - 1), r), sorted[Len(sorted)])

RECURSIVE SortFrom(_, _, _)
SortFrom(rs, i, sorted) ==
    IF i > Len(rs) THEN sorted ELSE SortFrom(rs, i + 1, InsertByStart(sorted, rs[i]))

SortByStart(rs) == SortFrom(rs, 1, <<>>)

\* the for loop of _apply from position i on, and the final append and join
\* "r.end <= cursor" in place of "r.start < cursor"
OverlapsByEnd(r, cur) == r.end <= cur

\* no candidate is ever skipped
NeverOverlaps(r, cur) == FALSE

\* if r.start < cursor: continue
Overlaps(r, cur) == r.start < cur

RECURSIVE Sweep(_, _, _, _, _)
Sweep(text, rs, i, cur, o) ==
    IF i > Len(rs) THEN o \o SliceFrom(text, cur)
    ELSE IF Overlaps(rs[i], cur) THEN Sweep(text, rs, i + 1, cur, o)
    ELSE Sweep(text, rs, i + 1, rs[i].end, o \o Slice(text, cur, rs[i].start) \o rs[i].repl)

\* _apply with "if not repls: return ''" in place of "return text"
ApplyEmptyOnNoRepls(text, rs) ==
    IF rs = <<>> THEN <<>> ELSE Sweep(text, SortByStart(rs), 1, 0, <<>>)

Apply(text, rs) ==
    IF rs = <<>> THEN text ELSE Sweep(text, SortByStart(rs), 1, 0, <<>>)

Raised == [kind |-> "raise", val |-> <<>>]

Returned(v) == [kind |-> "return", val |-> v]

anonymize_all(d) ==
    IF ~d.phone.ok \/ ~d.person.ok THEN Raised
    ELSE Returned(Apply(d.text, gather_regex(d) \o gather_phones(d) \o gather_person(d)))

\* repls = _gather_person(doc) + reg_r + ph_r: the entity spans first
anonymize_all_many_person_first(ds) ==
    IF \E i \in DOMAIN ds : ~ds[i].phone.ok \/ ~ds[i].person.ok THEN Raised
    ELSE Returned([i \in DOMAIN ds |->
            Apply(ds[i].text, gather_person(ds[i]) \o gather_regex(ds[i]) \o gather_phones(ds[i]))])

\* no try/except around _gather_phones or _nlp.pipe: one raising document
\* ends the whole call, the results list is lost
anonymize_all_many(ds) ==
    IF \E i \in DOMAIN ds : ~ds[i].phone.ok \/ ~ds[i].person.ok THEN Raised
    ELSE Returned([i \in DOMAIN ds |->
            Apply(ds[i].text, gather_regex(ds[i]) \o gather_phones(ds[i]) \o gather_person(ds[i]))])

-----------------------------------------------------------------------------
(* Documents: a text of at most MaxLen characters and at most MaxCands     *)
(* detections.  Registry matches and phone matches lie inside the text and *)
(* do not overlap within one rule (finditer, PhoneNumberMatcher); the      *)
(* offsets of the entity provider are taken as they come, up to MaxOver    *)
(* past the end of the text.                                               *)

MaxLen == 2

MaxCands == 3

MaxOver == 2

MaxBatch == 2

TextBase == <<"0", "6", "-", "1", "2", "x", "y", "z">>

\* the rules of _PATTERNS the documents draw their registry matches from
RuleSample == {1, CardRule, PatternCount}

Key(t) == (t.src * 100) + (t.start * 10) + t.end

Detections(L) ==
    {[src |-> r, start |-> a, end |-> b] : r \in RuleSample \cup {PhoneSrc}, a \in 0..L, b \in 0..L}
    \cup {[src |-> PersonSrc, start |-> a, end |-> b] : a \in 0..(L + MaxOver), b \in 0..(L + MaxOver)}

Disjoint(t, u) == t.end <= u.start \/ u.end <= t.start

\* finditer's matches of one pattern, and the phone matcher's, never overlap
Compatible(ds, t) ==
    \A i \in DOMAIN ds : (ds[i].src = t.src /\ t.src # PersonSrc) => Disjoint(ds[i], t)

Follows(ds, t) == ds = <<>> \/ Key(ds[Len(ds)]) < Key(t)

\* the detection lists of at most k detections on a text of length L, by
\* detector, then by position
RECURSIVE Picks(_, _)
Picks(L, k) ==
    IF k = 0 THEN {<<>>}
    ELSE LET prev == Picks(L, k - 1)
             found == {u \in Detections(L) : u.start < u.end}
         IN prev \cup {Append(x[1], x[2]) :
                          x \in {y \in {q \in prev : Len(q) = k - 1} \X found :
                                    Follows(y[1], y[2]) /\ Compatible(y[1], y[2])}}

IsRegistry(t) == t.src <= PatternCount

IsPhone(t) == t.src = PhoneSrc

IsPerson(t) == t.src = PersonSrc

Ranges(ds) == [i \in DOMAIN ds |-> [start |-> ds[i].start, end |-> ds[i].end]]

MkDoc(L, ds, phoneOk, personOk) ==
    [text |-> SubSeq(TextBase, 1, L),
     reg |-> LET rs == SelectSeq(ds, IsRegistry)
             IN [i \in DOMAIN rs |-> [rule |-> rs[i].src, start |-> rs[i].start, end |-> rs[i].end]],
     phone |-> [ok |-> phoneOk, spans |-> Ranges(SelectSeq(ds, IsPhone))],
     person |-> [ok |-> personOk, spans |-> Ranges(SelectSeq(ds, IsPerson))]]

\* a provider that raises reports nothing
MayRaise(ds, Test(_), ok) == ok \/ SelectSeq(ds, Test) = <<>>

DocsOfLen(L, maxCands) ==
    {MkDoc(L, x[1], x[2], x[3]) :
        x \in {y \in Picks(L, maxCands) \X BOOLEAN \X BOOLEAN :
                  MayRaise(y[1], IsPhone, y[2]) /\ MayRaise(y[1], IsPerson, y[3])}}

Docs(maxLen, maxCands) == UNION {DocsOfLen(L, maxCands) : L \in 0..maxLen}

\* detection-free documents of length L, on which either provider may raise
PlainDocs(L) == DocsOfLen(L, 0)

-----------------------------------------------------------------------------
(* SpecRules: the validators and the two checksum-gated rules applied to   *)
(* strings drawn from bounded families around three well-formed numbers.   *)

MaxFill == 3

MaxExtra == 2

IbanBase == <<"F", "R", "7", "6", "3", "0", "0", "0", "6", "0", "0", "0", "0", "1",
              "1", "2", "3", "4", "5", "6", "7", "8", "9", "0", "1", "8", "9">>

CardBase == <<"4", "5", "3", "9", "1", "4", "8", "8", "0", "3", "4", "3", "6", "4", "6", "7">>

NirBase == <<"1", "8", "5", "0", "5", "7", "8", "0", "0", "6", "0", "8", "4", "9", "1">>

SubstChars == DigitSet \cup {"A", "Z", "b", " ", "-", "!", "+", "_", "sup2"}

Subst(s, p, c) == [s EXCEPT ![p] = c]

InsertAfter(s, p, t) == SubSeq(s, 1, p) \o t \o SubSeq(s, p + 1, Len(s))

\* a base number with one character replaced
SubstFamily ==
    UNION {{Subst(b, p, c) : p \in DOMAIN b, c \in SubstChars} :
              b \in {IbanBase, CardBase, NirBase}}

\* French IBANs: one BBAN character replaced, any two check digits
CheckedIbans ==
    {Subst(Subst(Subst(IbanBase, p, c), 3, Digits[a]), 4, Digits[b]) :
        p \in 5..IbanLen, c \in {"0", "5", "9", "A", "k"}, a \in 1..10, b \in 1..10}

\* those of them the validator accepts, bare and printed in groups of four
ValidIbans == {s \in CheckedIbans : is_valid_iban(s) = "True"}

RECURSIVE Grouped(_)
Grouped(s) ==
    IF Len(s) <= IbanGroupLen THEN s
    ELSE SubSeq(s, 1, IbanGroupLen) \o <<" ">> \o Grouped(SubSeq(s, IbanGroupLen + 1, Len(s)))

\* separators inside and after a number, a neighbour before and after it
DressedFamily ==
    UNION {{InsertAfter(b, p, t) : p \in 0..Len(b),
                                   t \in {<<" ">>, <<"-">>, <<" ", " ">>, <<"1">>, <<"x">>}} :
              b \in {CardBase, IbanBase}}

\* card numbers of 12 to 16 + MaxExtra digits, and runs of one character
LengthFamily ==
    {SubSeq(CardBase, 1, n) : n \in 11..16}
    \cup {CardBase \o Repeat(c, n) : c \in {"0", "4", "7"}, n \in 1..MaxExtra}
    \cup {Repeat(c, n) : c \in SubstChars, n \in 0..MaxFill}
    \cup {<<"F", "R">> \o Repeat(c, IbanLen - 2) : c \in SubstChars}
    \cup {Repeat(c, NirLen) : c \in SubstChars}

\* the length of the local parts of the address family
MaxLocal == 3

LocalChars == {"j", "o", "9", ".", "+"}

EmailDomains == {<<"@", "x", ".", "c", "o", "m">>, <<"@", "e", "x", ".", "c", "o", ".", "u", "k">>}

JoMail == <<"j", "o", "@", "x", ".", "c", "o", "m">>

JohnDoeMail == <<"j", "o", "h", "n", ".", "d", "o", "e", "@", "e", "x", "a", "m", "p", "l", "e", ".", "c", "o", "m">>

\* addresses local@domain, local parts of 1 to MaxLocal characters
EmailInputs ==
    {JoMail, JohnDoeMail}
    \cup {l \o d : l \in UNION {[1..n -> LocalChars] : n \in 1..MaxLocal}, d \in EmailDomains}

RibBase == <<"3", "0", "0", "0", "6", "0", "0", "0", "0", "1", "1", "2", "3", "4", "5", "6", "7", "8", "9", "0", "1", "8", "9">>

PassportBase == <<"1", "2", "A", "B", "3", "4", "5", "6", "7">>

PermisBase == <<"1", "2", "3", "4", "5", "6", "7", "8", "9", "0", "1", "2">>

\* a number with its last characters replaced, one at a time, by a digit
TailFamily(b, n) == {Subst(b, p, c) : p \in (Len(b) - n + 1)..Len(b), c \in DigitSet}

\* card numbers and national IDs that differ in their last digits
CheckedTails ==
    {Subst(Subst(CardBase, 15, a), 16, b) : a \in DigitSet, b \in DigitSet}
    \cup {Subst(Subst(Subst(NirBase, 13, a), 14, b), 15, c) :
             a \in {"0", "4", "9"}, b \in DigitSet, c \in DigitSet}

\* texts one registry rule matches from end to end
RegistrySamples ==
    {<<"1", "2", " ", "r", "u", "e", " ", "d", "u", " ", "B", "a", "c", ",", " ", "7", "5", "0", "0", "7", " ", "P", "a", "r", "i", "s">>,
     <<"3", " ", "b", "d", " ", "F", "o", "c", "h", " ", "6", "9", "0", "0", "6", " ", "L", "y", "o", "n">>,
     <<"3", "0", "0", "0", "6", " ", "0", "0", "0", "0", "1", " ", "1", "2", "3", "4", "5", "6", "7", "8", "9", "0", "1", " ", "8", "9">>,
     <<"1", "2", "/", "0", "3", "/", "1", "9", "9", "0">>,
     <<"1", "/", "2", "/", "2", "0", "2", "4">>,
     <<"1", "2", " ", "m", "a", "r", "s", " ", "1", "9", "9", "0">>,
     <<"1", " ", "f", "e_acute", "v", "r", "i", "e", "r", " ", "2", "0", "0", "1">>,
     <<"A", "B", "-", "1", "2", "3", "-", "C", "D">>,
     <<"4", "5", "3", "9", " ", "1", "4", "8", "8", " ", "0", "3", "4", "3", " ", "6", "4", "6", "7">>}
    \cup TailFamily(RibBase, 4) \cup TailFamily(PassportBase, 2) \cup TailFamily(PermisBase, 1)
    \cup {s \in CheckedTails : is_valid_luhn(s) = "True" \/ is_valid_nir(s) = "True"}

RuleInputs ==
    SubstFamily \cup ValidIbans \cup {Grouped(s) : s \in ValidIbans}
    \cup DressedFamily \cup LengthFamily

NoVerdict == [iban |-> "none", luhn |-> "none", nir |-> "none"]

Verdicts(s) == [iban |-> is_valid_iban(s), luhn |-> is_valid_luhn(s), nir |-> is_valid_nir(s)]

ApplyIdle ==
    /\ doc = [text |-> <<>>, reg |-> <<>>, phone |-> <<>>, person |-> <<>>]
    /\ repls = <<>>
    /\ idx = 0
    /\ cursor = 0
    /\ out = <<>>
    /\ acc = <<>>
    /\ pc = "off"

ApiIdle ==
    /\ call = [op |-> "off", docs |-> <<>>]
    /\ ret = [kind |-> "none", val |-> <<>>]

RulesIdle ==
    /\ input = <<>>
    /\ op = "off"
    /\ verdict = NoVerdict
    /\ spans = <<>>
    /\ altered = <<>>

InitRules ==
    /\ input \in RuleInputs \cup RegistrySamples \cup EmailInputs
    /\ op = "none"
    /\ verdict = NoVerdict
    /\ spans = <<>>
    /\ altered = <<>>
    /\ ApplyIdle
    /\ ApiIdle

\* one call of each validator on the input
Validate ==
    /\ op = "none"
    /\ verdict' = Verdicts(input)
    /\ op' = "validate"
    /\ UNCHANGED <<input, spans, altered, applyVars, apiVars>>

\* the loop of _gather_regex for one of the two rules over the input
GatherRule(rule) ==
    /\ op = "none"
    /\ spans' = IF RuleRaises(rule, input) THEN <<>> ELSE RuleSpans(rule, input)
    /\ op' = IF RuleRaises(rule, input) THEN "raised"
             ELSE IF rule = IbanRule THEN "gather_iban" ELSE "gather_card"
    /\ UNCHANGED <<input, verdict, altered, applyVars, apiVars>>

\* digit p of the input replaced by the digit d, then the validators and the
\* IBAN rule on the altered string
AlterDigit(p, d) ==
    /\ p \in DOMAIN input
    /\ IsDigitChar(input[p])
    /\ d # input[p]
    /\ altered' = Subst(input, p, d)
    /\ verdict' = Verdicts(altered')
    /\ spans' = RuleSpans(IbanRule, altered')
    /\ op' = "alter"
    /\ UNCHANGED <<input, applyVars, apiVars>>

Alter ==
    /\ op = "none"
    /\ is_valid_iban(input) = "True"
    /\ \E p \in DOMAIN input, d \in DigitSet : AlterDigit(p, d)

WholeMatch(text) == <<[start |-> 0, end |-> Len(text)]>>

\* the loop of _gather_regex for the email rule over an input the pattern
\* matches from end to end
MaskEmail ==
    /\ op = "none"
    /\ input # <<>>
    /\ FindIter(EmailRule, input, 1) = WholeMatch(input)
    /\ spans' = <<[start |-> 0, end |-> Len(input), repl |-> mask_email(input)]>>
    /\ op' = "mask_email"
    /\ UNCHANGED <<input, verdict, altered, applyVars, apiVars>>

\* _gather_regex on a text: the accepted matches of every rule, rule by rule,
\* each with the replacements its masker can return
RegistryMatches(text) ==
    Flatten([r \in 1..PatternCount |->
        LET ms == AcceptedMatches(r, text)
        IN [i \in DOMAIN ms |->
              [rule |-> r, start |-> ms[i].start, end |-> ms[i].end,
               outcomes |-> Maskers(r, Group(text, ms[i]))]]])

\* a first run over an input that one rule matches from end to end and
\* accepts, which leaves the rule's mask in place of the input, and then
\* _gather_regex of a second run over that mask
MaskThenRerun(rule) ==
    /\ op = "none"
    /\ input # <<>>
    /\ ~RuleRaises(rule, input)
    /\ AcceptedMatches(rule, input) = WholeMatch(input)
    /\ \E token \in Maskers(rule, input) :
          /\ altered' = token
          /\ IF \E r \in 1..PatternCount : RuleRaises(r, token)
             THEN op' = "rerun_raised" /\ spans' = <<>>
             ELSE op' = "rerun" /\ spans' = RegistryMatches(token)
    /\ UNCHANGED <<input, verdict, applyVars, apiVars>>

\* the rules whose mask is a fixed token: all but the email rule, whose mask
\* keeps part of the address
FixedMaskRules == (1..PatternCount) \ {EmailRule}

NextRules ==
    \/ Validate
    \/ \E rule \in {IbanRule, CardRule} : GatherRule(rule)
    \/ Alter
    \/ MaskEmail
    \/ \E rule \in FixedMaskRules : MaskThenRerun(rule)

SpecRules == InitRules /\ [][NextRules]_vars

-----------------------------------------------------------------------------
(* Claims about the validators and the checksum-gated rules (SpecRules)    *)

IsBareIban(s) ==
    /\ Len(s) = IbanLen
    /\ s[1] = "F" /\ s[2] = "R"
    /\ \A i \in DOMAIN s : IsAlnum(s[i])
    /\ PyIntMod(iban_to_numeric(Upper(SubSeq(s, 5, Len(s)) \o SubSeq(s, 1, 4))), 97).val = 1

\* C5: a French IBAN of 27 characters that starts with "FR" and passes the
\* mod-97 check is matched in full by the IBAN rule, accepted, and replaced by
\* "FR************" followed by its last 4 characters.
C5_IbanAcceptedAndMasked ==
    (op = "gather_iban" /\ IsBareIban(input))
        => spans = <<[start |-> 0, end |-> IbanLen,
                      repl |-> IbanMaskPrefix \o SubSeq(input, IbanLen - 3, IbanLen)]>>

Malformed(s) == Strip(s) = <<>> \/ \E i \in DOMAIN s : ~IsAlnum(s[i]) /\ ~IsSeparator(s[i])

\* C7: each validator, on any string, returns False for malformed input
\* (empty, no digits, a character that is neither digit nor letter) and never
\* raises.
C7_ValidatorsFailClosed ==
    op = "validate"
        => /\ verdict.iban # "Raise" /\ verdict.luhn # "Raise" /\ verdict.nir # "Raise"
           /\ Malformed(input)
                => verdict.iban = "False" /\ verdict.luhn = "False" /\ verdict.nir = "False"

\* the Luhn check as the specification words it: counting from the right,
\* every second digit is doubled, 9 subtracted when the double exceeds 9
RECURSIVE LuhnSpecSum(_, _)
LuhnSpecSum(ds, fromRight) ==
    IF fromRight > Len(ds) THEN 0
    ELSE LET d == DigitVal(ds[Len(ds) + 1 - fromRight])
             t == IF fromRight % 2 = 0 THEN (IF d * 2 > 9 THEN d * 2 - 9 ELSE d * 2) ELSE d
         IN t + LuhnSpecSum(ds, fromRight + 1)

DigitsOf(x) == SelectSeq(x, IsDigitChar)

LuhnSpecOk(x) == LuhnSpecSum(DigitsOf(x), 1) % 10 = 0

MaskSpec(x) ==
    LET ds == DigitsOf(x)
    IN [i \in DOMAIN ds |-> IF i <= Len(ds) - 4 THEN "*" ELSE ds[i]]

CardMatches == FindIter(CardRule, input, 1)

CardAccepted(m) == LuhnSpecOk(Group(input, m))

\* C8: a match of the card pattern produces a span if and only if its digits
\* pass the Luhn check; the span replaces the match by its digits with all
\* but the last 4 starred (4539148803436467 gives ************6467), and a
\* failing match (4539148803436468) produces no span.
C8_CardGatedByLuhn ==
    op = "gather_card"
        => /\ LET kept == SelectSeq(CardMatches, CardAccepted)
              IN spans = [i \in DOMAIN kept |->
                            [start |-> kept[i].start, end |-> kept[i].end,
                             repl |-> MaskSpec(Group(input, kept[i]))]]
           /\ input = CardBase
                => spans = <<[start |-> 0, end |-> 16,
                              repl |-> Repeat("*", 12) \o <<"6", "4", "6", "7">>]>>
           /\ input = Subst(CardBase, 16, "8") => spans = <<>>

C8_Witness ==
    /\ op = "gather_card"
    /\ Len(input) > 16
    /\ Len(spans) = 1
    /\ spans[1].repl = Repeat("*", 12) \o <<"6", "4", "6", "7">>

\* C10: when _is_valid_iban accepts a string, replacing any single digit of
\* it by a different digit makes _is_valid_iban return False, and the IBAN
\* rule produces no span for the altered string.
C10_SingleDigitErrorDetected ==
    op = "alter" => verdict.iban = "False" /\ spans = <<>>

C10_Witness ==
    /\ op = "alter"
    /\ input = IbanBase
    /\ altered = Subst(IbanBase, 3, "8")
    /\ verdict.iban = "False"

FirstAt(x) == CHOOSE i \in DOMAIN x : x[i] = "@" /\ \A k \in 1..(i - 1) : x[k] # "@"

\* C12: the replacement of a matched address local@domain has the length of
\* the address and the same domain; its local part is all "*" when the local
\* part has 1 or 2 characters, and otherwise keeps the first and the last
\* character and stars each one between ("jo@x.com" gives "**@x.com",
\* "john.doe@example.com" gives "j******e@example.com").
C12_EmailLocalMasked ==
    op = "mask_email"
        => LET masked == spans[1].repl
               at == FirstAt(input)
               n == at - 1
           IN /\ Len(spans) = 1
              /\ Len(masked) = Len(input)
              /\ \A i \in at..Len(input) : masked[i] = input[i]
              /\ \A i \in 1..n :
                    masked[i] = IF n <= 2 THEN "*"
                                ELSE IF i = 1 \/ i = n THEN input[i] ELSE "*"
              /\ input = JoMail => masked = <<"*", "*", "@", "x", ".", "c", "o", "m">>
              /\ input = JohnDoeMail => masked = <<"j", "*", "*", "*", "*", "*", "*", "e", "@", "e", "x", "a", "m", "p", "l", "e", ".", "c", "o", "m">>

C12_Witness ==
    /\ op = "mask_email"
    /\ input = JohnDoeMail
    /\ spans[1].repl = <<"j", "*", "*", "*", "*", "*", "*", "e", "@", "e", "x", "a", "m", "p", "l", "e", ".", "c", "o", "m">>

-----------------------------------------------------------------------------
(* SpecApply: anonymize_all on one document, _apply step by step           *)

InitApply ==
    /\ \E L \in 0..MaxLen : doc \in DocsOfLen(L, MaxCands)
    /\ repls = <<>>
    /\ idx = 0
    /\ cursor = 0
    /\ out = <<>>
    /\ acc = <<>>
    /\ pc = "call"
    /\ RulesIdle
    /\ ApiIdle

\* anonymize_all up to the call of _apply
Gather ==
    /\ pc = "call"
    /\ IF ~doc.phone.ok \/ ~doc.person.ok
       THEN pc' = "raised" /\ UNCHANGED repls
       ELSE /\ repls' = gather_regex(doc) \o gather_phones(doc) \o gather_person(doc)
            /\ pc' = "apply"
    /\ UNCHANGED <<doc, idx, cursor, out, acc, ruleVars, apiVars>>

\* _apply up to the for loop
ApplyStart ==
    /\ pc = "apply"
    /\ IF repls = <<>>
       THEN /\ out' = doc.text
            /\ pc' = "done"
            /\ UNCHANGED <<repls, idx, cursor>>
       ELSE /\ repls' = SortByStart(repls)
            /\ out' = <<>>
            /\ cursor' = 0
            /\ idx' = 1
            /\ pc' = "loop"
    /\ UNCHANGED <<doc, acc, ruleVars, apiVars>>

\* one iteration that takes the continue
SweepSkip ==
    /\ pc = "loop"
    /\ idx <= Len(repls)
    /\ Overlaps(repls[idx], cursor)
    /\ idx' = idx + 1
    /\ UNCHANGED <<doc, repls, cursor, out, acc, pc, ruleVars, apiVars>>

\* one iteration that emits the replacement
SweepAccept ==
    /\ pc = "loop"
    /\ idx <= Len(repls)
    /\ ~Overlaps(repls[idx], cursor)
    /\ out' = out \o Slice(doc.text, cursor, repls[idx].start) \o repls[idx].repl
    /\ cursor' = repls[idx].end
    /\ acc' = Append(acc, repls[idx])
    /\ idx' = idx + 1
    /\ UNCHANGED <<doc, repls, pc, ruleVars, apiVars>>

\* out.append(text[cursor:]); return "".join(out)
SweepFinish ==
    /\ pc = "loop"
    /\ idx > Len(repls)
    /\ out' = out \o SliceFrom(doc.text, cursor)
    /\ pc' = "done"
    /\ UNCHANGED <<doc, repls, idx, cursor, acc, ruleVars, apiVars>>

NextApply == Gather \/ ApplyStart \/ SweepSkip \/ SweepAccept \/ SweepFinish

SpecApply == InitApply /\ [][NextApply]_vars

-----------------------------------------------------------------------------
(* Spec: the two public entry points, each call as one step                *)

Init ==
    /\ call = [op |-> "idle", docs |-> <<>>]
    /\ ret = [kind |-> "none", val |-> <<>>]
    /\ RulesIdle
    /\ ApplyIdle

CallSingle(d) ==
    /\ call.op = "idle"
    /\ call' = [op |-> "anonymize_all", docs |-> <<d>>]
    /\ ret' = anonymize_all(d)
    /\ UNCHANGED <<ruleVars, applyVars>>

CallBatch(ds) ==
    /\ call.op = "idle"
    /\ call' = [op |-> "anonymize_all_many", docs |-> ds]
    /\ ret' = anonymize_all_many(ds)
    /\ UNCHANGED <<ruleVars, applyVars>>

\* batches of n documents: a document with at most one detection, at any
\* position, among detection-free siblings
BatchesOf(n) ==
    {[i \in 1..n |-> IF i = k THEN d ELSE s[i]] :
        k \in 1..n, d \in Docs(MaxLen, 1), s \in [1..n -> PlainDocs(MaxLen)]}

Next ==
    \/ \E d \in Docs(MaxLen, 1) : CallSingle(d)
    \/ \E n \in 0..MaxBatch : \E ds \in BatchesOf(n) : CallBatch(ds)

Spec == Init /\ [][Next]_vars

-----------------------------------------------------------------------------
(* Claims about _apply (SpecApply)                                         *)

Emitted(r) == r \in Range(acc)

InText(r) == r.end <= Len(doc.text)

OverlapSpans(r, q) == r.start < q.end /\ q.start < r.end

\* an accepted span placed before position i that reaches past the start of r
ShadowedAt(i, r) == \E k \in 1..(i - 1) : Emitted(repls[k]) /\ repls[k].end > r.start

FromRegistry(r) == r.src <= PatternCount

\* C1 as stated: whenever two candidates overlap and start at different
\* offsets, the one with the smaller start is emitted and the later-starting
\* one is discarded (read here on lists of registry matches, all of them
\* inside the text).
C1_EarlierStartAlwaysWins ==
    (pc = "done" /\ \A k \in DOMAIN repls : InText(repls[k]) /\ FromRegistry(repls[k]))
        => \A i \in DOMAIN repls, j \in DOMAIN repls :
              (OverlapSpans(repls[i], repls[j]) /\ repls[i].start < repls[j].start)
                  => Emitted(repls[i]) /\ ~Emitted(repls[j])

\* C1 amended: of two overlapping candidates with different starts at most
\* one is emitted; if the earlier-starting one is accepted the later one is
\* discarded, and the earlier-starting one is discarded only when it starts
\* inside a span accepted before it.
C1_OverlapResolvedByPosition ==
    pc = "done"
        => \A i \in DOMAIN repls, j \in DOMAIN repls :
              (OverlapSpans(repls[i], repls[j]) /\ repls[i].start < repls[j].start)
                  => /\ Emitted(repls[i]) => ~Emitted(repls[j])
                     /\ ~Emitted(repls[i]) => ShadowedAt(i, repls[i])

C1_Witness ==
    /\ pc = "done"
    /\ \E i \in DOMAIN repls, j \in DOMAIN repls :
          /\ OverlapSpans(repls[i], repls[j])
          /\ repls[i].start < repls[j].start
          /\ repls[j].end - repls[j].start > repls[i].end - repls[i].start
          /\ Emitted(repls[i])
          /\ ~Emitted(repls[j])

RegistryTie(i, j) ==
    /\ FromRegistry(repls[i])
    /\ FromRegistry(repls[j])
    /\ repls[i].src < repls[j].src
    /\ repls[i].start = repls[j].start

\* C2 as stated: when two spans of different registry rules start at the same
\* offset, the earlier rule's span precedes the other after the sort, its
\* replacement is the one emitted and the other span is discarded.
C2_EarlierRuleAlwaysEmitted ==
    (pc = "done" /\ \A k \in DOMAIN repls : InText(repls[k]))
        => \A i \in DOMAIN repls, j \in DOMAIN repls :
              RegistryTie(i, j) => i < j /\ Emitted(repls[i]) /\ ~Emitted(repls[j])

\* C2 amended: the earlier rule's span precedes the other after the sort and
\* the later rule's span is always discarded; the earlier rule's replacement
\* is emitted unless its start lies inside a span accepted before it.
C2_TieBrokenByPriority ==
    pc \in {"loop", "done"}
        => \A i \in DOMAIN repls, j \in DOMAIN repls :
              RegistryTie(i, j)
                  => /\ i < j
                     /\ pc = "done"
                          => /\ ~Emitted(repls[j])
                             /\ Emitted(repls[i]) \/ ShadowedAt(i, repls[i])

C2_Witness ==
    /\ pc = "done"
    /\ \E i \in DOMAIN repls, j \in DOMAIN repls :
          RegistryTie(i, j) /\ Emitted(repls[i]) /\ ~Emitted(repls[j])

NonEmpty(r) == r.start < r.end

Clamped(rs) ==
    [i \in DOMAIN rs |->
        [rs[i] EXCEPT !.start = Min(@, Len(doc.text)), !.end = Min(@, Len(doc.text))]]

\* C9: a candidate whose end or start lies beyond the text is rejected
\* defensively: the output is the reconstruction over the candidates with
\* every such span dropped, or with every such span clamped to the text
\* length (an emptied span kept or not).
C9_OutOfRangeRejected ==
    pc = "done"
        => \/ out = Apply(doc.text, SelectSeq(repls, InText))
           \/ out = Apply(doc.text, Clamped(repls))
           \/ out = Apply(doc.text, SelectSeq(Clamped(repls), NonEmpty))

\* text[a:b], written out: the characters at offsets a, ..., b - 1 that exist
Part(text, a, b) ==
    LET lo == IF a < Len(text) THEN a ELSE Len(text)
        hi == IF b < Len(text) THEN b ELSE Len(text)
    IN [i \in 1..(hi - lo) |-> text[lo + i]]

\* the cursor after the walk has met the first n candidates: it begins at 0
\* and moves to the end of each accepted candidate
RECURSIVE WalkCursor(_, _)
WalkCursor(rs, n) ==
    IF n = 0 THEN 0
    ELSE LET c == WalkCursor(rs, n - 1)
         IN IF rs[n].start >= c THEN rs[n].end ELSE c

\* the candidates accepted among the first n: those whose start is not
\* below the cursor
RECURSIVE WalkKept(_, _)
WalkKept(rs, n) ==
    IF n = 0 THEN <<>>
    ELSE IF rs[n].start >= WalkCursor(rs, n - 1)
         THEN Append(WalkKept(rs, n - 1), rs[n])
         ELSE WalkKept(rs, n - 1)

EndBefore(ss, k) == IF k = 1 THEN 0 ELSE ss[k - 1].end

\* text[0:s1.start] + s1.repl + ... + text[s(k-1).end:sk.start] + sk.repl
RECURSIVE Pieces(_, _, _)
Pieces(text, ss, k) ==
    IF k = 0 THEN <<>>
    ELSE Pieces(text, ss, k - 1) \o Part(text, EndBefore(ss, k), ss[k].start) \o ss[k].repl

\* Pieces without the replacements, and the text after the last span
RECURSIVE Gaps(_, _, _)
Gaps(text, ss, k) ==
    IF k = 0 THEN <<>>
    ELSE Gaps(text, ss, k - 1) \o Part(text, EndBefore(ss, k), ss[k].start)

TailText(text, ss) == Part(text, EndBefore(ss, Len(ss) + 1), Len(text))

\* the first n characters of the text that lie in none of the spans
RECURSIVE Outside(_, _, _)
Outside(text, ss, n) ==
    IF n = 0 THEN <<>>
    ELSE Outside(text, ss, n - 1)
         \o (IF \E k \in DOMAIN ss : ss[k].start < n /\ n <= ss[k].end THEN <<>> ELSE <<text[n]>>)

\* C13: the walk goes over the candidates in order of start with a cursor
\* that begins at 0 and accepts exactly those whose start is not below the
\* cursor; a discarded candidate changes neither output nor cursor; the
\* output is text[0:s1.start] + s1.repl + ... + sk.repl + text[sk.end:]
\* over the accepted spans, in which every character outside the accepted
\* spans appears once, in order.
C13_SinglePassReconstruction ==
    /\ pc \in {"loop", "done"}
          => \A i \in DOMAIN repls, j \in DOMAIN repls : i < j => repls[i].start <= repls[j].start
    /\ pc = "loop"
          => /\ acc = WalkKept(repls, idx - 1)
             /\ cursor = WalkCursor(repls, idx - 1)
             /\ out = Pieces(doc.text, acc, Len(acc))
    /\ pc = "done"
          => /\ acc = WalkKept(repls, Len(repls))
             /\ out = Pieces(doc.text, acc, Len(acc)) \o TailText(doc.text, acc)
             /\ Gaps(doc.text, acc, Len(acc)) \o TailText(doc.text, acc)
                    = Outside(doc.text, acc, Len(doc.text))

\* a span kept right where the previous accepted span ends, one discarded
C13_Witness ==
    /\ pc = "done"
    /\ Len(repls) = 3
    /\ Len(acc) = 2
    /\ acc[2].start = acc[1].end
    /\ acc[2].end = Len(doc.text)
    /\ out = acc[1].repl \o acc[2].repl

WithinText(r) == 0 <= r.start /\ r.start < r.end /\ r.end <= Len(doc.text)

\* every span the detectors report for the document lies inside its text
WellFormedSpans ==
    /\ \A i \in DOMAIN doc.reg : WithinText(doc.reg[i])
    /\ \A i \in DOMAIN doc.phone.spans : WithinText(doc.phone.spans[i])
    /\ \A i \in DOMAIN doc.person.spans : WithinText(doc.person.spans[i])

SweepInvariant ==
    pc \in {"loop", "done"}
        => /\ 0 <= cursor /\ cursor <= Len(doc.text)
           /\ \A k \in 1..(Len(acc) - 1) : acc[k].end <= acc[k + 1].start
           /\ \A k \in DOMAIN acc, l \in DOMAIN acc : k # l => ~OverlapSpans(acc[k], acc[l])

\* C14: when every candidate satisfies 0 <= start < end <= len(text), at
\* every step of the loop of _apply the cursor does not decrease and stays
\* within [0, len(text)], and the spans accepted so far are pairwise disjoint,
\* each one starting at or after the end of the one accepted before it.
C14_SweepInvariant ==
    /\ [](WellFormedSpans => SweepInvariant)
    /\ [][WellFormedSpans => cursor' >= cursor]_vars

C14_Witness ==
    /\ pc = "loop"
    /\ WellFormedSpans
    /\ Len(repls) = 3
    /\ Len(acc) = 2
    /\ cursor = Len(doc.text)

\* registry rules before the phone provider before the entity provider
SourceRank(r) == IF FromRegistry(r) THEN 1 ELSE IF r.src = PhoneSrc THEN 2 ELSE 3

SourceTie(i, j) ==
    /\ SourceRank(repls[i]) < SourceRank(repls[j])
    /\ repls[i].start = repls[j].start

\* C15: the candidate list holds the registry spans, then the phone spans,
\* then the person spans, and the sort keeps that order among equal starts;
\* of two spans of different sources starting at the same offset the one of
\* the later source is never emitted, and the one of the earlier source is
\* emitted unless its start lies inside a span accepted before it; the
\* batch path returns for the document what the single-text path returns.
C15_ProviderSpansLoseTies ==
    /\ pc = "apply"
          => \A i \in DOMAIN repls, j \in DOMAIN repls :
                i < j => SourceRank(repls[i]) <= SourceRank(repls[j])
    /\ pc \in {"loop", "done"}
          => \A i \in DOMAIN repls, j \in DOMAIN repls : SourceTie(i, j) => i < j
    /\ pc = "done"
          => /\ \A i \in DOMAIN repls, j \in DOMAIN repls :
                   SourceTie(i, j)
                       => /\ ~Emitted(repls[j])
                          /\ Emitted(repls[i]) \/ ShadowedAt(i, repls[i])
             /\ anonymize_all(doc) = Returned(out)
             /\ anonymize_all_many(<<doc>>) = Returned(<<out>>)

\* a registry span, a phone span and a person span at the same offset
C15_Witness ==
    /\ pc = "done"
    /\ Len(repls) = 3
    /\ SourceTie(1, 2)
    /\ SourceTie(2, 3)
    /\ acc = <<repls[1]>>
    /\ anonymize_all_many(<<doc>>) = Returned(<<out>>)

-----------------------------------------------------------------------------
(* Claims about the public entry points (Spec)                             *)

Candidates(d) == gather_regex(d) \o gather_phones(d) \o gather_person(d)

\* C3: anonymize_all_many(ts)[i] equals anonymize_all(ts[i]) for every i
\* (the entity provider returning its spans for every text), with one result
\* per input, whatever the other elements of the batch are.
C3_BatchEqualsSingle ==
    (call.op = "anonymize_all_many" /\ \A j \in DOMAIN call.docs : call.docs[j].person.ok)
        => \A i \in DOMAIN call.docs :
              anonymize_all(call.docs[i]).kind = "return"
                  => /\ ret.kind = "return"
                     /\ Len(ret.val) = Len(call.docs)
                     /\ ret.val[i] = anonymize_all(call.docs[i]).val

\* C4: a provider that fails for one document contributes nothing for that
\* document; every document still gets the masking of the other detectors
\* and no exception reaches the caller.
C4_ProviderFailureIsolated ==
    /\ call.op = "anonymize_all"
          => ret = Returned(Apply(call.docs[1].text, Candidates(call.docs[1])))
    /\ call.op = "anonymize_all_many"
          => ret = Returned([i \in DOMAIN call.docs |->
                               Apply(call.docs[i].text, Candidates(call.docs[i]))])

NoDetection(d) ==
    /\ d.reg = <<>>
    /\ d.phone.ok /\ d.phone.spans = <<>>
    /\ d.person.ok /\ d.person.spans = <<>>

\* C6: on a text where no rule yields an accepted span and both providers
\* return no span, anonymize_all returns the text unchanged; the empty text
\* yields the empty text.
C6_IdentityWithoutDetections ==
    (call.op = "anonymize_all" /\ NoDetection(call.docs[1]))
        => ret = Returned(call.docs[1].text)

C6_Witness ==
    /\ call.op = "anonymize_all"
    /\ NoDetection(call.docs[1])
    /\ Len(call.docs[1].text) = MaxLen
    /\ ret = Returned(call.docs[1].text)

=============================================================================
